---- MODULE Spec2Model ----
(***************************************************************************)
(* A model of the gopilot-orchestrator gateway (src/orchestrator/main.py): *)
(* the upstream resolver, the chat-completions handler with its request    *)
(* and response translation, the emulated SSE stream, the passthrough      *)
(* relay, and the /vertex/predict and /tools/{name}/invoke endpoints.      *)
(*                                                                         *)
(* Strings are sequences of characters (one-character TLA+ strings), so    *)
(* that rstrip, lower, the substring test and slicing are computed as the  *)
(* code computes them.  Strings the program only passes around (ids,       *)
(* object tags, model names) are written as a one-symbol sequence.         *)
(* JSON values are tagged records; a dict is a function on its keys, an    *)
(* absent key is a key outside its domain, and null is JNull.              *)
(***************************************************************************)
EXTENDS Integers, Sequences, FiniteSets, TLC

VARIABLES
    env,        \* os.environ: the process configuration (read-only)
    parked,     \* the request-scoped state of a second request, suspended at an await
    route,      \* the endpoint serving the current request
    client,     \* the client's connection: "connected" until it disconnects
    pc,         \* position of the request handler / response generator
    inbound,    \* the request body as the client sent it
    body,       \* the handler's `body` dict (after the default-model injection)
    sent,       \* the upstream calls issued for the current request, in order
    resp,       \* the upstream's answer to the last call (httpx response / error)
    response,   \* what the gateway answers to the client
    emitted,    \* the frames yielded so far on a streaming response
    locals,     \* the handler's locals that sse_iter closes over
    i,          \* sse_iter's loop index
    conn,       \* the upstream connection of a streamed call
    hash,       \* Python's hash() of this process on the repository URLs
    containers, \* the Docker daemon's containers: records of id, name and status
    handle,     \* the container start_container returned last
    op,         \* the agent's last call and its result
    results,    \* the validator's results: one ValidationResult per check run
    report,     \* the report generate_report returned
    stage,      \* position of the validator's main()
    exit_code   \* the status the validator's process exited with

\* the state of the gateway (src/orchestrator/main.py)
gateway == <<env, parked, route, client, pc, inbound, body, sent, resp, response, emitted,
             locals, i, conn>>

\* the state of the container agent (src/services/orchestrator/src/agent.py)
agent == <<hash, containers, handle, op>>

\* the state of the deployment-readiness validator
\* (src/deployment_readiness_agent.py)
validator == <<results, report, stage, exit_code>>

\* what the gateway's actions leave alone
others == <<agent, validator>>

vars == <<gateway, agent, validator>>

---------------------------------------------------------------------------
(* Strings *)

UpperCase == <<"A","B","C","D","E","F","G","H","I","J","K","L","M",
               "N","O","P","Q","R","S","T","U","V","W","X","Y","Z">>
LowerCase == <<"a","b","c","d","e","f","g","h","i","j","k","l","m",
               "n","o","p","q","r","s","t","u","v","w","x","y","z">>

\* str.lower() on one character
LowerChar(c) ==
    IF \E k \in DOMAIN UpperCase : UpperCase[k] = c
    THEN LowerCase[CHOOSE k \in DOMAIN UpperCase : UpperCase[k] = c]
    ELSE c

\* str.lower()
Lower(s) == [k \in 1..Len(s) |-> LowerChar(s[k])]

\* str.rstrip("/")
RECURSIVE RStripSlash(_)
RStripSlash(s) ==
    IF s # <<>> /\ s[Len(s)] = "/" THEN RStripSlash(SubSeq(s, 1, Len(s) - 1)) ELSE s

\* `sub in s` on strings
Contains(s, sub) ==
    \E k \in 1..(Len(s) - Len(sub) + 1) : SubSeq(s, k, k + Len(sub) - 1) = sub

\* s[a : b] with 0 <= a <= b (Python slice, clipped at the end of s)
Slice(s, a, b) == SubSeq(s, a + 1, IF b < Len(s) THEN b ELSE Len(s))

Max(a, b) == IF a >= b THEN a ELSE b

---------------------------------------------------------------------------
(* JSON values and the Python operations the handler applies to them *)

JNull == [t |-> "null"]
JBool(b) == [t |-> "bool", v |-> b]
JNum(n) == [t |-> "num", v |-> n]
JStr(s) == [t |-> "str", v |-> s]
JList(s) == [t |-> "list", v |-> s]
JObj(f) == [t |-> "obj", v |-> f]

\* marks a key left out when a dict is built from optional fields
Absent == [t |-> "absent"]
EmptyDict == JObj([k \in {} |-> JNull])

\* the dict holding exactly the keys of f whose value is not Absent
Dict(f) == JObj([k \in {x \in DOMAIN f : f[x] # Absent} |-> f[k]])

\* Python truthiness: bool(v)
Truthy(v) ==
    CASE v.t = "null" -> FALSE
      [] v.t = "bool" -> v.v
      [] v.t = "num" -> v.v # 0
      [] v.t = "str" -> v.v # <<>>
      [] v.t = "list" -> v.v # <<>>
      [] v.t = "obj" -> DOMAIN v.v # {}

\* a or b
PyOr(a, b) == IF Truthy(a) THEN a ELSE b

\* `k in d` for a dict d
HasKey(d, k) == k \in DOMAIN d.v

\* d.get(k, default) for a dict d
GetOr(d, k, default) == IF HasKey(d, k) THEN d.v[k] ELSE default

\* d.get(k) for a dict d
Get(d, k) == GetOr(d, k, JNull)

\* d[k] = x for a dict d
SetKey(d, k, x) == JObj([y \in DOMAIN d.v \cup {k} |-> IF y = k THEN x ELSE d.v[y]])

---------------------------------------------------------------------------
(* Configuration: os.environ and the upstream resolver *)

\* a variable that is not set in the environment
Unset == <<"(unset)">>

\* os.getenv(name, default)
getenv(e, name, default) == IF e[name] = Unset THEN default ELSE e[name]

Localhost == <<"l","o","c","a","l","h","o","s","t">>
Loopback == <<"1","2","7",".","0",".","0",".","1">>
ChatCompletionsPath ==
    <<"/","v","1","/","c","h","a","t","/","c","o","m","p","l","e","t","i","o","n","s">>
BearerMode == <<"b","e","a","r","e","r">>
GCloudMode == <<"g","c","l","o","u","d">>
NoneMode == <<"n","o","n","e">>
BearerPrefix == <<"B","e","a","r","e","r"," ">>
ApplicationJson == <<"application/json">>
BuiltinDefaultModel == <<"openai/gpt-oss-120b-maas">>

\* a raised RuntimeError / a returned value
Raise(msg) == [ok |-> FALSE, error |-> msg]
Return(x) == [ok |-> TRUE, value |-> x]

\* SelectUpstream with the chat-completions URL tested before the prediction URL
SelectUpstream_CompletionsFirst(e) ==
    LET predict_url == RStripSlash(getenv(e, "UPSTREAM_PREDICT_URL", <<>>))
        completions_url == RStripSlash(getenv(e, "UPSTREAM_CHAT_COMPLETIONS_URL", <<>>))
        base_url == RStripSlash(getenv(e, "UPSTREAM_API_BASE_URL", <<>>))
    IN  IF completions_url # <<>> THEN Return(completions_url)
        ELSE IF predict_url # <<>> THEN Return(predict_url)
        ELSE IF base_url # <<>> THEN Return(base_url \o ChatCompletionsPath)
        ELSE Raise("Configure UPSTREAM_PREDICT_URL ou UPSTREAM_CHAT_COMPLETIONS_URL")

\* main.py 14-25: the upstream URL, first match wins
SelectUpstream(e) ==
    LET predict_url == RStripSlash(getenv(e, "UPSTREAM_PREDICT_URL", <<>>))
        completions_url == RStripSlash(getenv(e, "UPSTREAM_CHAT_COMPLETIONS_URL", <<>>))
        base_url == RStripSlash(getenv(e, "UPSTREAM_API_BASE_URL", <<>>))
    IN  IF predict_url # <<>> THEN Return(predict_url)
        ELSE IF completions_url # <<>> THEN Return(completions_url)
        ELSE IF base_url # <<>> THEN Return(base_url \o ChatCompletionsPath)
        ELSE Raise("Configure UPSTREAM_PREDICT_URL ou UPSTREAM_CHAT_COMPLETIONS_URL")

\* main.py 27: the local-address test on the resolved URL
IsForbiddenLocal(url) == Contains(url, Localhost) \/ Contains(url, Loopback)

\* AuthHeaders with the gcloud branch reading the API key and an unknown mode
\* treated like none
AuthHeaders_Lenient(e) ==
    LET auth_mode == Lower(getenv(e, "UPSTREAM_AUTH", BearerMode))
        headers == [h \in {"Content-Type"} |-> ApplicationJson]
        api_key == getenv(e, "UPSTREAM_API_KEY", <<>>)
    IN  IF auth_mode \in {BearerMode, GCloudMode}
        THEN IF api_key = <<>>
             THEN Raise("UPSTREAM_API_KEY obrigatorio para UPSTREAM_AUTH=bearer")
             ELSE Return(headers @@ ("Authorization" :> BearerPrefix \o api_key))
        ELSE Return(headers)

\* main.py 30-48: the headers for the configured auth mode
AuthHeaders(e) ==
    LET auth_mode == Lower(getenv(e, "UPSTREAM_AUTH", BearerMode))
        headers == [h \in {"Content-Type"} |-> ApplicationJson]
        api_key == getenv(e, "UPSTREAM_API_KEY", <<>>)
        token == getenv(e, "GOOGLE_ACCESS_TOKEN", <<>>)
    IN  IF auth_mode = BearerMode
        THEN IF api_key = <<>>
             THEN Raise("UPSTREAM_API_KEY obrigatorio para UPSTREAM_AUTH=bearer")
             ELSE Return(headers @@ ("Authorization" :> BearerPrefix \o api_key))
        ELSE IF auth_mode = GCloudMode
        THEN IF token = <<>>
             THEN Raise("GOOGLE_ACCESS_TOKEN obrigatorio para UPSTREAM_AUTH=gcloud")
             ELSE Return(headers @@ ("Authorization" :> BearerPrefix \o token))
        ELSE IF auth_mode = NoneMode
        THEN Return(headers)
        ELSE Raise("UPSTREAM_AUTH invalido")

\* main.py 12-50: (upstream_url, headers), or the RuntimeError raised
_get_upstream_config(e) ==
    LET sel == SelectUpstream(e)
    IN  IF ~sel.ok THEN sel
        ELSE IF IsForbiddenLocal(sel.value) THEN Raise("PROIBIDO LOCALHOST em upstream")
        ELSE LET auth == AuthHeaders(e)
             IN  IF ~auth.ok THEN auth
                 ELSE Return([url |-> sel.value, headers |-> auth.value])

---------------------------------------------------------------------------
(* Responses of the gateway and answers of the upstream *)

NoResponse ==
    [kind |-> "none", status |-> 0, media_type |-> <<>>, body |-> JNull]

\* raise HTTPException(status_code, detail): FastAPI answers {"detail": detail}
HTTPException(status_code, detail) ==
    [kind |-> "error", status |-> status_code, media_type |-> ApplicationJson,
     body |-> JObj([detail |-> detail])]

JSONResponse(status_code, json) ==
    [kind |-> "json", status |-> status_code, media_type |-> ApplicationJson,
     body |-> json]

\* the body of a streaming response is the sequence of frames in `emitted`
StreamingResponse(status_code, media_type) ==
    [kind |-> "stream", status |-> status_code, media_type |-> media_type,
     body |-> JNull]

\* an exception no handler catches: the framework answers 500
ServerError(exc) ==
    [kind |-> "unhandled", status |-> 500, media_type |-> <<"text/plain">>,
     body |-> JStr(<<exc>>)]

\* resp.text: the upstream's body as a string
Text(payload) == [t |-> "text", v |-> payload]

NoResp == [kind |-> "none"]
NetworkError == [kind |-> "network_error"]

\* an upstream answer: a status, the content-type header and the body, which is
\* JSON text (json = TRUE, value its parse) or some other text
UpstreamAnswer(status_code, content_type, isjson, value) ==
    [kind |-> "response", status_code |-> status_code, content_type |-> content_type,
     payload |-> [json |-> isjson, value |-> value]]

---------------------------------------------------------------------------
(* Request translation: main.py 76-93 *)

\* InjectDefaultModel testing for the key instead of the value's truth
InjectDefaultModel_KeyOnly(b, e) ==
    IF ~HasKey(b, "model")
    THEN SetKey(b, "model", JStr(getenv(e, "UPSTREAM_DEFAULT_MODEL", BuiltinDefaultModel)))
    ELSE b

\* main.py 77-78
InjectDefaultModel(b, e) ==
    IF ~Truthy(Get(b, "model"))
    THEN SetKey(b, "model", JStr(getenv(e, "UPSTREAM_DEFAULT_MODEL", BuiltinDefaultModel)))
    ELSE b

\* main.py 85-92
PredictInstance(b) ==
    Dict(("@requestFormat" :> JStr(<<"chatCompletions">>))
         @@ ("messages" :> GetOr(b, "messages", JList(<<>>)))
         @@ ("max_tokens" :> IF HasKey(b, "max_tokens") THEN b.v["max_tokens"] ELSE Absent)
         @@ ("temperature" :> IF HasKey(b, "temperature") THEN b.v["temperature"] ELSE Absent))

\* main.py 93
PredictPayload(b) == JObj([instances |-> JList(<<PredictInstance(b)>>)])

\* one outbound call: client.post / client.stream
Call(url, json, headers, mode, timeout) ==
    [url |-> url, json |-> json, headers |-> headers, mode |-> mode, timeout |-> timeout]

---------------------------------------------------------------------------
(* Response translation: main.py 100-114, 155-162 *)

\* ParsePrediction taking the last element of a `predictions` list and leaving
\* an absent model empty
ParsePrediction_LastNoFallback(payload, b) ==
    IF ~payload.json THEN Raise("JSONDecodeError")
    ELSE LET vertex == payload.value
         IN  IF vertex.t # "obj" THEN Raise("AttributeError")
             ELSE LET pred0 == PyOr(Get(vertex, "predictions"), EmptyDict)
                      pred == IF pred0.t = "list" /\ Truthy(pred0)
                              THEN pred0.v[Len(pred0.v)] ELSE pred0
                  IN  IF pred.t # "obj" THEN Raise("AttributeError")
                      ELSE Return([choices |-> PyOr(Get(pred, "choices"), JList(<<>>)),
                                   created |-> Get(pred, "created"),
                                   oid |-> Get(pred, "id"),
                                   model |-> Get(pred, "model"),
                                   usage |-> PyOr(Get(pred, "usage"), EmptyDict)])

\* main.py 100-110: the fields read from the prediction response
ParsePrediction(payload, b) ==
    IF ~payload.json THEN Raise("JSONDecodeError")
    ELSE LET vertex == payload.value
         IN  IF vertex.t # "obj" THEN Raise("AttributeError")
             ELSE LET pred0 == PyOr(Get(vertex, "predictions"), EmptyDict)
                      pred == IF pred0.t = "list" /\ Truthy(pred0) THEN pred0.v[1] ELSE pred0
                  IN  IF pred.t # "obj" THEN Raise("AttributeError")
                      ELSE Return([choices |-> PyOr(Get(pred, "choices"), JList(<<>>)),
                                   created |-> Get(pred, "created"),
                                   oid |-> Get(pred, "id"),
                                   model |-> PyOr(Get(pred, "model"), Get(b, "model")),
                                   usage |-> PyOr(Get(pred, "usage"), EmptyDict)])

\* main.py 114: choices[0].get("message", {}).get("content", "") for truthy choices
FirstContent(choices) ==
    IF choices.t = "obj" THEN Raise("KeyError")
    ELSE IF choices.t = "str" THEN Raise("AttributeError")
    ELSE IF choices.t # "list" THEN Raise("TypeError")
    ELSE LET first == choices.v[1]
         IN  IF first.t # "obj" THEN Raise("AttributeError")
             ELSE LET message == GetOr(first, "message", EmptyDict)
                  IN  IF message.t # "obj" THEN Raise("AttributeError")
                      ELSE Return(GetOr(message, "content", JStr(<<>>)))

\* main.py 119 / 132 / 142 / 156: oid or "chatcmpl"
CompletionId(oid) == PyOr(oid, JStr(<<"chatcmpl">>))

\* OpenAI keeping only the first choice
OpenAI_FirstChoiceOnly(p) ==
    JObj([id |-> CompletionId(p.oid),
          object |-> JStr(<<"chat.completion">>),
          created |-> p.created,
          model |-> p.model,
          choices |-> IF Len(p.choices.v) > 1 THEN JList(<<p.choices.v[1]>>)
                      ELSE p.choices,
          usage |-> p.usage])

\* main.py 155-162
OpenAI(p) ==
    JObj([id |-> CompletionId(p.oid),
          object |-> JStr(<<"chat.completion">>),
          created |-> p.created,
          model |-> p.model,
          choices |-> p.choices,
          usage |-> p.usage])

---------------------------------------------------------------------------
(* The emulated stream: main.py 116-150 *)

\* a chunk object with one choice
Chunk(l, delta, finish_reason) ==
    JObj([id |-> CompletionId(l.oid),
          object |-> JStr(<<"chat.completion.chunk">>),
          model |-> l.model,
          choices |-> JList(<<JObj([index |-> JNum(0), delta |-> delta,
                                    finish_reason |-> finish_reason])>>)])

\* f"data: {event}\n\n": the event is formatted with str(), Python's dict repr
Frame(event) == [prefix |-> "data: ", render |-> "str", payload |-> event, suffix |-> "\n\n"]

\* "data: [DONE]\n\n"
DoneFrame == [prefix |-> "data: ", render |-> "literal", payload |-> JStr(<<"[DONE]">>),
              suffix |-> "\n\n"]

\* how a serialisation writes string quotes and the constants
PyRepr == [quote |-> "'", null |-> "None", true |-> "True", false |-> "False"]
JsonText == [quote |-> "\"", null |-> "null", true |-> "true", false |-> "false"]

\* the keys of the chunk objects in the order the dict literals list them
KeyOrder == <<"id", "object", "model", "choices", "index", "delta", "role", "content",
              "finish_reason">>

\* the text of a value, as a sequence of characters and tokens, in style st:
\* str() of a dict (Python's repr) or json.dumps
RECURSIVE Render(_, _), RenderItems(_, _), RenderPairs(_, _, _)
Render(v, st) ==
    CASE v.t = "null" -> <<st.null>>
      [] v.t = "bool" -> <<IF v.v THEN st.true ELSE st.false>>
      [] v.t = "num" -> <<ToString(v.v)>>
      [] v.t = "str" -> <<st.quote>> \o v.v \o <<st.quote>>
      [] v.t = "list" -> <<"[">> \o RenderItems(v.v, st) \o <<"]">>
      [] v.t = "obj" ->
            <<"{">> \o RenderPairs(v, SelectSeq(KeyOrder, LAMBDA k : HasKey(v, k)), st)
                   \o <<"}">>

RenderItems(items, st) ==
    IF items = <<>> THEN <<>>
    ELSE Render(Head(items), st)
         \o (IF Len(items) > 1 THEN <<", ">> ELSE <<>>) \o RenderItems(Tail(items), st)

RenderPairs(d, keys, st) ==
    IF keys = <<>> THEN <<>>
    ELSE <<st.quote, Head(keys), st.quote, ": ">> \o Render(d.v[Head(keys)], st)
         \o (IF Len(keys) > 1 THEN <<", ">> ELSE <<>>) \o RenderPairs(d, Tail(keys), st)

\* main.py 126, 139, 149, 150: the text of a frame as it goes on the wire
Wire(f) ==
    IF f.render = "literal" THEN <<f.prefix>> \o f.payload.v \o <<f.suffix>>
    ELSE <<f.prefix>> \o Render(f.payload, PyRepr) \o <<f.suffix>>

\* main.py 118-125
first_event(l) == Chunk(l, JObj([role |-> JStr(<<"assistant">>)]), JNull)

\* main.py 131-138
event(l, piece) == Chunk(l, JObj([content |-> piece]), JNull)

\* done_event always finishing with "stop"
done_event_AlwaysStop(l) == Chunk(l, EmptyDict, JStr(<<"stop">>))

\* done_event without the "stop" default
done_event_NoDefault(l) ==
    Chunk(l, EmptyDict, Get(l.choices.v[1], "finish_reason"))

\* main.py 141-148
done_event(l) ==
    Chunk(l, EmptyDict, PyOr(Get(l.choices.v[1], "finish_reason"), JStr(<<"stop">>)))

\* len(content) is defined
Sized(c) == c.t \in {"str", "list"}

\* chunk_size without the floor of 20
chunk_size_NoFloor(c) ==
    IF Len(c.v) \div 20 # 0 THEN Len(c.v) \div 20 ELSE 1

\* main.py 128
chunk_size(c) ==
    Max(20, IF Len(c.v) \div 20 # 0 THEN Len(c.v) \div 20 ELSE 1)

\* main.py 130: content[i : i + chunk_size]
piece(c, k) == [t |-> c.t, v |-> Slice(c.v, k, k + chunk_size(c))]

---------------------------------------------------------------------------
(* The chat-completions handler: main.py 69-185 *)

NoLocals == [choices |-> JNull, created |-> JNull, oid |-> JNull, model |-> JNull,
             usage |-> JNull, content |-> JNull]

\* the locals sse_iter closes over: the parsed prediction and `content`
Closure(p, c) ==
    [choices |-> p.choices, created |-> p.created, oid |-> p.oid, model |-> p.model,
     usage |-> p.usage, content |-> c]


\* main.py 83: the prediction URL the handler reads again
predict_url(e) == RStripSlash(getenv(e, "UPSTREAM_PREDICT_URL", <<>>))

\* UpstreamCall opening a live stream whenever the request asks for one, whatever
\* the target style
UpstreamCall_StreamFirst(e, cfg, b) ==
    IF Truthy(Get(b, "stream"))
    THEN Call(cfg.url, b, cfg.headers, "streamed", 0)
    ELSE IF predict_url(e) # <<>>
    THEN Call(predict_url(e), PredictPayload(b), cfg.headers, "buffered", 120)
    ELSE Call(cfg.url, b, cfg.headers, "buffered", 60)

\* main.py 84-96, 165-167, 179-180: the one upstream call of a request
\* (timeout in seconds, 0 for timeout=None)
UpstreamCall(e, cfg, b) ==
    IF predict_url(e) # <<>>
    THEN Call(predict_url(e), PredictPayload(b), cfg.headers, "buffered", 120)
    ELSE IF Truthy(Get(b, "stream"))
    THEN Call(cfg.url, b, cfg.headers, "streamed", 0)
    ELSE Call(cfg.url, b, cfg.headers, "buffered", 60)

\* where the handler waits for the upstream after UpstreamCall
AwaitOf(e, b) ==
    IF predict_url(e) # <<>> THEN "await_predict"
    ELSE IF Truthy(Get(b, "stream")) THEN "await_stream"
    ELSE "await_chat"

\* ConfigErrorResponse answering 500, as an uncaught RuntimeError would
ConfigErrorResponse_Uncaught(msg) == ServerError(msg)

\* main.py 71-74: the RuntimeError of the resolver becomes a 503
ConfigErrorResponse(msg) == HTTPException(503, JStr(<<msg>>))

\* UpstreamError answering 502 Bad Gateway whatever the upstream's status
UpstreamError_BadGateway(r) == HTTPException(502, Text(r.payload))

\* main.py 97-98, 168-170, 181-182, 213-214: an upstream status >= 400 is raised
\* as an HTTPException of that status with the upstream's text as detail
UpstreamError(r) == HTTPException(r.status_code, Text(r.payload))

\* main.py 76, 209: request.json() parses the body, or raises JSONDecodeError
IsJson(req) == req.t # "text"

\* main.py 70-96 / 165-167 / 179-180: a request arrives; the handler resolves the
\* upstream, injects the default model and issues the upstream call
chat_completions(req) ==
    /\ pc = "idle"
    /\ route' = "chat"
    /\ client' = "connected"
    /\ inbound' = req
    /\ resp' = NoResp
    /\ emitted' = <<>>
    /\ locals' = NoLocals
    /\ i' = 0
    /\ conn' = "none"
    /\ LET cfg == _get_upstream_config(env)
       IN  IF ~cfg.ok
           THEN /\ response' = ConfigErrorResponse(cfg.error)
                /\ body' = JNull
                /\ sent' = <<>>
                /\ pc' = "done"
           ELSE IF ~IsJson(req)
           THEN /\ response' = ServerError("JSONDecodeError")
                /\ body' = JNull
                /\ sent' = <<>>
                /\ pc' = "done"
           ELSE LET b == InjectDefaultModel(req, env)
                IN  /\ body' = b
                    /\ sent' = <<UpstreamCall(env, cfg.value, b)>>
                    /\ response' = NoResponse
                    /\ pc' = AwaitOf(env, b)
    /\ UNCHANGED <<others, env, parked>>

\* RequestError issuing the call once more instead of answering
RequestError_Retries ==
    /\ pc \in {"await_predict", "await_chat", "await_stream"}
    /\ resp' = NetworkError
    /\ sent' = Append(sent, sent[Len(sent)])
    /\ UNCHANGED <<others, env, parked, route, client, pc, inbound, body, response, emitted, locals, i, conn>>

\* main.py 184-185: the call fails before a status is obtained
RequestError ==
    /\ pc \in {"await_predict", "await_chat", "await_stream"}
    /\ resp' = NetworkError
    /\ response' = HTTPException(502, JStr(<<"Erro ao conectar ao upstream">>))
    /\ pc' = "done"
    /\ UNCHANGED <<others, env, parked, route, client, inbound, body, sent, emitted, locals, i, conn>>

\* main.py 97-114, 152-163: what the handler does with a prediction answer
PredictOutcome(r, b) ==
    IF r.status_code >= 400
    THEN [response |-> UpstreamError(r),
          locals |-> NoLocals, pc |-> "done"]
    ELSE LET p == ParsePrediction(r.payload, b)
         IN  IF ~p.ok
             THEN [response |-> ServerError(p.error), locals |-> NoLocals, pc |-> "done"]
             ELSE IF Truthy(Get(b, "stream")) /\ Truthy(p.value.choices)
             THEN LET c == FirstContent(p.value.choices)
                  IN  IF ~c.ok
                      THEN [response |-> ServerError(c.error), locals |-> NoLocals,
                            pc |-> "done"]
                      ELSE [response |-> StreamingResponse(200, <<"text/event-stream">>),
                            locals |-> Closure(p.value, c.value),
                            pc |-> "sse_role"]
             ELSE [response |-> JSONResponse(200, OpenAI(p.value)),
                   locals |-> NoLocals, pc |-> "done"]

\* main.py 96-163: the prediction call returns
PredictReturns(r) ==
    /\ pc = "await_predict"
    /\ resp' = r
    /\ LET o == PredictOutcome(r, body)
       IN  /\ response' = o.response
           /\ locals' = o.locals
           /\ pc' = o.pc
    /\ UNCHANGED <<others, env, parked, route, client, inbound, body, sent, emitted, i, conn>>

\* main.py 181-183: what the handler does with a buffered chat-completions answer
ChatOutcome(r) ==
    IF r.status_code >= 400 THEN UpstreamError(r)
    ELSE IF ~r.payload.json THEN ServerError("JSONDecodeError")
    ELSE JSONResponse(r.status_code, r.payload.value)

\* main.py 179-183: the buffered chat-completions call returns
ChatReturns(r) ==
    /\ pc = "await_chat"
    /\ resp' = r
    /\ response' = ChatOutcome(r)
    /\ pc' = "done"
    /\ UNCHANGED <<others, env, parked, route, client, inbound, body, sent, emitted, locals, i, conn>>

\* StreamOpens starting the streaming response whatever the upstream's status
StreamOpens_AlwaysStreams(r) ==
    /\ pc = "await_stream"
    /\ resp' = r
    /\ conn' = "closed"
    /\ response' = StreamingResponse(r.status_code,
                        IF r.content_type = Unset THEN ApplicationJson ELSE r.content_type)
    /\ pc' = "relay"
    /\ UNCHANGED <<others, env, parked, route, client, inbound, body, sent, emitted, locals, i>>

\* main.py 166-177: the streamed call obtains a status; both `async with` blocks
\* are left when the handler raises or returns, which closes the connection
StreamOpens(r) ==
    /\ pc = "await_stream"
    /\ resp' = r
    /\ conn' = "closed"
    /\ IF r.status_code >= 400
       THEN /\ response' = UpstreamError(r)
            /\ pc' = "done"
       ELSE /\ response' = StreamingResponse(r.status_code,
                               IF r.content_type = Unset THEN ApplicationJson
                               ELSE r.content_type)
            /\ pc' = "relay"
    /\ UNCHANGED <<others, env, parked, route, client, inbound, body, sent, emitted, locals, i>>

\* resp.aiter_bytes(): the body as the chunks it arrives in (a body that is not
\* a sequence of chunks arrives as one)
aiter_bytes(r) ==
    IF r.payload.value.t = "list" THEN r.payload.value.v ELSE <<r.payload.value>>

\* main.py 172-174: iter_bytes reads the next chunk of the upstream body;
\* reading a closed response raises httpx.StreamClosed and ends the stream
iter_bytes ==
    /\ pc = "relay"
    /\ IF conn # "open"
       THEN /\ pc' = "aborted"
            /\ UNCHANGED <<emitted, i>>
       ELSE IF i < Len(aiter_bytes(resp))
       THEN /\ emitted' = Append(emitted, aiter_bytes(resp)[i + 1])
            /\ i' = i + 1
            /\ pc' = pc
       ELSE /\ pc' = "done"
            /\ UNCHANGED <<emitted, i>>
    /\ UNCHANGED <<others, env, parked, route, client, inbound, body, sent, resp, response, locals, conn>>

\* main.py 118-126: sse_iter yields the role chunk
SseRole ==
    /\ pc = "sse_role"
    /\ emitted' = Append(emitted, Frame(first_event(locals)))
    /\ i' = 0
    /\ pc' = "sse_content"
    /\ UNCHANGED <<others, env, parked, route, client, inbound, body, sent, resp, response, locals, conn>>

\* main.py 128: len(content) raises TypeError when content has no length
SseRaises ==
    /\ pc = "sse_content"
    /\ ~Sized(locals.content)
    /\ pc' = "aborted"
    /\ UNCHANGED <<others, env, parked, route, client, inbound, body, sent, resp, response, emitted, locals, i, conn>>

\* main.py 129-139: sse_iter yields the next slice of the content
SsePiece ==
    /\ pc = "sse_content"
    /\ Sized(locals.content)
    /\ i < Len(locals.content.v)
    /\ emitted' = Append(emitted, Frame(event(locals, piece(locals.content, i))))
    /\ i' = i + chunk_size(locals.content)
    /\ UNCHANGED <<others, env, parked, route, client, pc, inbound, body, sent, resp, response, locals, conn>>

\* main.py 141-149: the loop is over, sse_iter yields the terminal chunk
SseTerminal ==
    /\ pc = "sse_content"
    /\ Sized(locals.content)
    /\ i >= Len(locals.content.v)
    /\ emitted' = Append(emitted, Frame(done_event(locals)))
    /\ pc' = "sse_done"
    /\ UNCHANGED <<others, env, parked, route, client, inbound, body, sent, resp, response, locals, i, conn>>

\* main.py 150: sse_iter yields the sentinel and returns
SseDone ==
    /\ pc = "sse_done"
    /\ emitted' = Append(emitted, DoneFrame)
    /\ pc' = "done"
    /\ UNCHANGED <<others, env, parked, route, client, inbound, body, sent, resp, response, locals, i, conn>>

\* ClientDisconnects with the generator left running after the disconnect
ClientDisconnects_KeepsStreaming ==
    /\ pc \in {"sse_role", "sse_content", "sse_done", "relay"}
    /\ client = "connected"
    /\ client' = "gone"
    /\ UNCHANGED <<others, env, parked, route, pc, inbound, body, sent, resp, response, emitted,
                   locals, i, conn>>

\* main.py 116-152, 172-177: the client disconnects while the response generator
\* is suspended at a yield; the framework cancels the response task and the
\* generator is not resumed
ClientDisconnects ==
    /\ pc \in {"sse_role", "sse_content", "sse_done", "relay"}
    /\ client = "connected"
    /\ client' = "gone"
    /\ pc' = "cancelled"
    /\ UNCHANGED <<others, env, parked, route, inbound, body, sent, resp, response, emitted,
                   locals, i, conn>>

\* the locals of a handler coroutine and of its response generator
Coroutine(r, cl, p, inb, b, s, rp, rs, em, l, k, c) ==
    [route |-> r, client |-> cl, pc |-> p, inbound |-> inb, body |-> b, sent |-> s, resp |-> rp,
     response |-> rs, emitted |-> em, locals |-> l, i |-> k, conn |-> c]

\* no request
NoRequest ==
    Coroutine("none", "none", "idle", JNull, JNull, <<>>, NoResp, NoResponse, <<>>, NoLocals, 0, "none")

\* the request being served
Running ==
    Coroutine(route, client, pc, inbound, body, sent, resp, response, emitted, locals, i, conn)

\* Switch with `body` kept across the switch, as a module-level variable would be
Switch_SharedBody ==
    /\ parked' = Running
    /\ route' = parked.route
    /\ client' = parked.client
    /\ pc' = parked.pc
    /\ inbound' = parked.inbound
    /\ sent' = parked.sent
    /\ resp' = parked.resp
    /\ response' = parked.response
    /\ emitted' = parked.emitted
    /\ locals' = parked.locals
    /\ i' = parked.i
    /\ conn' = parked.conn
    /\ UNCHANGED <<others, env, body>>

\* main.py 69-185: the handlers are coroutines; at an await or between two yields
\* the event loop suspends one request and resumes another, each with its own
\* locals
Switch ==
    /\ parked' = Running
    /\ route' = parked.route
    /\ client' = parked.client
    /\ pc' = parked.pc
    /\ inbound' = parked.inbound
    /\ body' = parked.body
    /\ sent' = parked.sent
    /\ resp' = parked.resp
    /\ response' = parked.response
    /\ emitted' = parked.emitted
    /\ locals' = parked.locals
    /\ i' = parked.i
    /\ conn' = parked.conn
    /\ UNCHANGED <<others, env>>

\* the response has been delivered, or the stream has ended: nothing of the request
\* is kept, and the server waits for the next one
RequestEnds ==
    /\ pc \in {"done", "aborted", "cancelled"}
    /\ pc' = "idle"
    /\ route' = "none"
    /\ client' = "none"
    /\ inbound' = JNull
    /\ body' = JNull
    /\ sent' = <<>>
    /\ resp' = NoResp
    /\ response' = NoResponse
    /\ emitted' = <<>>
    /\ locals' = NoLocals
    /\ i' = 0
    /\ conn' = "none"
    /\ UNCHANGED <<others, env, parked>>

---------------------------------------------------------------------------
(* The model listing: main.py 58-66 *)

\* ModelList naming the built-in model whatever the configuration says
ModelList_Builtin(e) ==
    JObj([object |-> JStr(<<"list">>),
          data |-> JList(<<JObj([id |-> JStr(BuiltinDefaultModel),
                                 object |-> JStr(<<"model">>)])>>)])

\* main.py 60-66: the list of the one configured default model
ModelList(e) ==
    JObj([object |-> JStr(<<"list">>),
          data |-> JList(<<JObj([id |-> JStr(getenv(e, "UPSTREAM_DEFAULT_MODEL",
                                                    BuiltinDefaultModel)),
                                 object |-> JStr(<<"model">>)])>>)])

\* main.py 58-66: GET /v1/models
list_models ==
    /\ pc = "idle"
    /\ route' = "models"
    /\ client' = "connected"
    /\ inbound' = JNull
    /\ body' = JNull
    /\ sent' = <<>>
    /\ resp' = NoResp
    /\ response' = JSONResponse(200, ModelList(env))
    /\ emitted' = <<>>
    /\ locals' = NoLocals
    /\ i' = 0
    /\ conn' = "none"
    /\ pc' = "done"
    /\ UNCHANGED <<others, env, parked>>

---------------------------------------------------------------------------
(* The prediction passthrough: main.py 188-217 *)

\* main.py 189-207: the endpoint's own validation of the prediction URL and its
\* own auth dispatch (gcloud when UPSTREAM_AUTH is unset; any mode other than
\* gcloud and bearer sends no Authorization header)
VertexConfig(e) ==
    LET auth_mode == Lower(getenv(e, "UPSTREAM_AUTH", GCloudMode))
        headers == [h \in {"Content-Type"} |-> ApplicationJson]
        token == getenv(e, "GOOGLE_ACCESS_TOKEN", <<>>)
        key == getenv(e, "UPSTREAM_API_KEY", <<>>)
    IN  IF predict_url(e) = <<>>
        THEN Raise(HTTPException(503, JStr(<<"Defina UPSTREAM_PREDICT_URL">>)))
        ELSE IF IsForbiddenLocal(predict_url(e))
        THEN Raise(HTTPException(400, JStr(<<"PROIBIDO LOCALHOST em UPSTREAM_PREDICT_URL">>)))
        ELSE IF auth_mode = GCloudMode
        THEN IF token = <<>>
             THEN Raise(HTTPException(503, JStr(<<"GOOGLE_ACCESS_TOKEN obrigatorio">>)))
             ELSE Return(headers @@ ("Authorization" :> BearerPrefix \o token))
        ELSE IF auth_mode = BearerMode
        THEN IF key = <<>>
             THEN Raise(HTTPException(503, JStr(<<"UPSTREAM_API_KEY obrigatorio">>)))
             ELSE Return(headers @@ ("Authorization" :> BearerPrefix \o key))
        ELSE Return(headers)

\* main.py 189-212: a request arrives on /vertex/predict; the payload is posted
\* to the prediction URL as it came
vertex_predict_passthrough(req) ==
    /\ pc = "idle"
    /\ route' = "vertex"
    /\ client' = "connected"
    /\ inbound' = req
    /\ body' = JNull
    /\ resp' = NoResp
    /\ emitted' = <<>>
    /\ locals' = NoLocals
    /\ i' = 0
    /\ conn' = "none"
    /\ LET cfg == VertexConfig(env)
       IN  IF ~cfg.ok
           THEN /\ response' = cfg.error
                /\ sent' = <<>>
                /\ pc' = "done"
           ELSE IF ~IsJson(req)
           THEN /\ response' = ServerError("JSONDecodeError")
                /\ sent' = <<>>
                /\ pc' = "done"
           ELSE /\ sent' = <<Call(predict_url(env), req, cfg.value, "buffered", 120)>>
                /\ response' = NoResponse
                /\ pc' = "await_vertex"
    /\ UNCHANGED <<others, env, parked>>

\* main.py 213-215: the upstream's JSON goes back with the upstream's status
VertexOutcome(r) ==
    IF r.status_code >= 400 THEN UpstreamError(r)
    ELSE IF ~r.payload.json THEN ServerError("JSONDecodeError")
    ELSE JSONResponse(r.status_code, r.payload.value)

\* main.py 212-215: the prediction call returns
VertexReturns(r) ==
    /\ pc = "await_vertex"
    /\ resp' = r
    /\ response' = VertexOutcome(r)
    /\ pc' = "done"
    /\ UNCHANGED <<others, env, parked, route, client, inbound, body, sent, emitted, locals, i, conn>>

\* main.py 216-217: the call fails before a status is obtained
VertexRequestError ==
    /\ pc = "await_vertex"
    /\ resp' = NetworkError
    /\ response' = HTTPException(502, JStr(<<"Erro ao conectar ao Vertex">>))
    /\ pc' = "done"
    /\ UNCHANGED <<others, env, parked, route, client, inbound, body, sent, emitted, locals, i, conn>>

---------------------------------------------------------------------------
(* The toolbox proxy: main.py 220-232 *)

ApiToolPath == <<"/","a","p","i","/","t","o","o","l","/">>
InvokePath == <<"/","i","n","v","o","k","e">>

\* a request to /tools/{name}/invoke: the path parameter and the raw body
ToolRequest(name, content) == [name |-> name, content |-> content]

\* request.body(): the bytes of the request, forwarded without parsing
Bytes(content) == [t |-> "bytes", v |-> content]

\* main.py 222, 228: f"{base}/api/tool/{name}/invoke"
ToolUrl(e, name) ==
    RStripSlash(getenv(e, "GENAI_TOOLBOX_URL", <<>>)) \o ApiToolPath \o name \o InvokePath

\* main.py 221-230: a request arrives on /tools/{name}/invoke
toolbox_invoke(req) ==
    /\ pc = "idle"
    /\ route' = "tool"
    /\ client' = "connected"
    /\ inbound' = req
    /\ body' = JNull
    /\ resp' = NoResp
    /\ emitted' = <<>>
    /\ locals' = NoLocals
    /\ i' = 0
    /\ conn' = "none"
    /\ LET base == RStripSlash(getenv(env, "GENAI_TOOLBOX_URL", <<>>))
       IN  IF base = <<>>
           THEN /\ response' = HTTPException(503, JStr(<<"Defina GENAI_TOOLBOX_URL">>))
                /\ sent' = <<>>
                /\ pc' = "done"
           ELSE IF IsForbiddenLocal(base)
           THEN /\ response' =
                      HTTPException(400, JStr(<<"PROIBIDO LOCALHOST em GENAI_TOOLBOX_URL">>))
                /\ sent' = <<>>
                /\ pc' = "done"
           ELSE /\ sent' = <<Call(ToolUrl(env, req.name), Bytes(req.content),
                                  [h \in {"Content-Type"} |-> ApplicationJson],
                                  "buffered", 60)>>
                /\ response' = NoResponse
                /\ pc' = "await_tool"
    /\ UNCHANGED <<others, env, parked>>

\* resp.content: the answer has a body
HasContent(r) == r.payload.json \/ r.payload.value # JStr(<<>>)

\* main.py 232: the upstream's status with its JSON, or {} for an empty body
ToolOutcome(r) ==
    IF ~HasContent(r) THEN JSONResponse(r.status_code, EmptyDict)
    ELSE IF ~r.payload.json THEN ServerError("JSONDecodeError")
    ELSE JSONResponse(r.status_code, r.payload.value)

\* main.py 229-232: the tool call returns
ToolReturns(r) ==
    /\ pc = "await_tool"
    /\ resp' = r
    /\ response' = ToolOutcome(r)
    /\ pc' = "done"
    /\ UNCHANGED <<others, env, parked, route, client, inbound, body, sent, emitted, locals, i, conn>>

\* main.py 229-230: the call fails before a status is obtained; nothing in the
\* handler catches httpx.RequestError
ToolRequestError ==
    /\ pc = "await_tool"
    /\ resp' = NetworkError
    /\ response' = ServerError("httpx.RequestError")
    /\ pc' = "done"
    /\ UNCHANGED <<others, env, parked, route, client, inbound, body, sent, emitted, locals, i, conn>>

---------------------------------------------------------------------------
(* The container agent: src/services/orchestrator/src/agent.py 58-167 *)

\* a container of the Docker daemon
Container(id, name, status) == [id |-> id, name |-> name, status |-> status]

NoHandle == [id |-> 0]
NoCall == [call |-> "none"]

\* None, for an optional argument that is not given
None == <<"(none)">>

Abs(n) == IF n < 0 THEN 0 - n ELSE n

DigitChars == <<"0", "1", "2", "3", "4", "5", "6", "7", "8", "9">>

\* str(n) for a natural number n
RECURSIVE Digits(_)
Digits(n) ==
    IF n < 10 THEN <<DigitChars[n + 1]>>
    ELSE Digits(n \div 10) \o <<DigitChars[(n % 10) + 1]>>

RepoPrefix == <<"r", "e", "p", "o", "-">>
DefaultId == <<"d", "e", "f", "a", "u", "l", "t">>

\* _generate_workspace_id reducing the hash modulo 100000
_generate_workspace_id_WideModulus(h, repo_url) ==
    IF repo_url # None /\ repo_url # <<>>
    THEN RepoPrefix \o Digits(Abs(h[repo_url]) % 100000)
    ELSE DefaultId

\* agent.py 103-107: h is hash() of this process, a function on strings
_generate_workspace_id(h, repo_url) ==
    IF repo_url # None /\ repo_url # <<>>
    THEN RepoPrefix \o Digits(Abs(h[repo_url]) % 10000)
    ELSE DefaultId

\* str.startswith
StartsWith(s, prefix) ==
    Len(s) >= Len(prefix) /\ SubSeq(s, 1, Len(prefix)) = prefix

\* agent.py 156-167: the containers list_containers reports
list_containers(cs) ==
    {c \in cs : StartsWith(c.name, RepoPrefix) \/ c.name = DefaultId}

\* docker_client.containers.get(name): the containers of that name
Named(cs, name) == {c \in cs : c.name = name}

\* the id the daemon gives the next container
FreshId(cs) == Cardinality(cs) + 1

\* start_container creating a container without looking for an existing one
start_container_AlwaysRuns(cs, workspace_id) ==
    LET created == Container(FreshId(cs), workspace_id, "running")
    IN  [containers |-> cs \cup {created}, container |-> created]

\* agent.py 109-140: get the container of that name and start it unless it is
\* running, or create and run one when there is none; the daemon's containers
\* afterwards and the container object returned, which keeps the attributes read
\* by get (the method has no await: it runs to its end without another task in
\* between)
start_container(cs, workspace_id) ==
    IF Named(cs, workspace_id) # {}
    THEN LET container == CHOOSE c \in Named(cs, workspace_id) : TRUE
         IN  IF container.status # "running"
             THEN LET started == [container EXCEPT !.status = "running"]
                  IN  [containers |-> (cs \ {container}) \cup {started},
                       container |-> container]
             ELSE [containers |-> cs, container |-> container]
    ELSE LET created == Container(FreshId(cs), workspace_id, "running")
         IN  [containers |-> cs \cup {created}, container |-> created]

\* the daemon has no container and the agent has made no call; hash is fixed for
\* the life of the process
InitAgent(Hashes) ==
    /\ hash \in Hashes
    /\ containers = {}
    /\ handle = NoHandle
    /\ op = NoCall

\* agent.py 109: a call of start_container
StartCall(workspace_id) ==
    /\ LET r == start_container(containers, workspace_id)
       IN  /\ containers' = r.containers
           /\ handle' = r.container
    /\ op' = [call |-> "start_container", workspace_id |-> workspace_id]
    /\ UNCHANGED <<gateway, validator, hash>>

\* agent.py 142-154: stop the container of that name; False when there is none
stop_container(workspace_id) ==
    /\ IF Named(containers, workspace_id) # {}
       THEN LET container == CHOOSE c \in Named(containers, workspace_id) : TRUE
            IN  /\ containers' = (containers \ {container})
                                    \cup {[container EXCEPT !.status = "exited"]}
                /\ op' = [call |-> "stop_container", workspace_id |-> workspace_id,
                          result |-> TRUE]
       ELSE /\ containers' = containers
            /\ op' = [call |-> "stop_container", workspace_id |-> workspace_id,
                      result |-> FALSE]
    /\ UNCHANGED <<gateway, validator, hash, handle>>

\* agent.py 58-101: orchestrate picks the workspace id, the one given or the
\* one generated from the repository URL, and starts its container
orchestrate(workspace_id, repo_url) ==
    /\ LET id == IF workspace_id # None /\ workspace_id # <<>> THEN workspace_id
                 ELSE _generate_workspace_id(hash, repo_url)
           r == start_container(containers, id)
       IN  /\ containers' = r.containers
           /\ handle' = r.container
           /\ op' = [call |-> "orchestrate", given |-> workspace_id,
                     repo_url |-> repo_url, workspace_id |-> id]
    /\ UNCHANGED <<gateway, validator, hash>>

---------------------------------------------------------------------------
(* The deployment-readiness validator: src/deployment_readiness_agent.py *)

\* deployment_readiness_agent.py 499-507: the checks in the order they run
Checks == <<"Service Structure", "Dockerfiles", "Docker Compose", "Environment Config",
            "Localhost/Mock/Placeholder Policy", "Build Processes", "GCP Readiness">>

\* deployment_readiness_agent.py 19-25; the message is written as the name of the
\* check it comes from
ValidationResult(message, passed, severity) ==
    [message |-> message, passed |-> passed, severity |-> severity]

\* the results each check function can return: passed with INFO, or failed with
\* the severities of its return statements
Outcomes(check) ==
    {ValidationResult(check, TRUE, "INFO")}
    \cup {ValidationResult(check, FALSE, sev) :
            sev \in CASE check = "Docker Compose" -> {"ERROR", "WARNING"}
                      [] check \in {"Build Processes", "GCP Readiness"} -> {"WARNING"}
                      [] OTHER -> {"ERROR"}}

NoReport == [deployment_ready |-> FALSE, total_checks |-> 0]

InitValidator ==
    /\ results = <<>>
    /\ report = NoReport
    /\ stage = "checks"
    /\ exit_code = -1

\* sum(1 for r in results if ...)
Count(rs, Test(_)) == Cardinality({k \in DOMAIN rs : Test(rs[k])})

\* generate_report taking a warning for as blocking as an error
generate_report_WarningsBlock(rs) ==
    LET error_count == Count(rs, LAMBDA r : ~r.passed /\ r.severity = "ERROR")
        warning_count == Count(rs, LAMBDA r : ~r.passed /\ r.severity = "WARNING")
    IN  [deployment_ready |-> error_count + warning_count = 0,
         passed_checks |-> Count(rs, LAMBDA r : r.passed),
         total_checks |-> Len(rs),
         error_count |-> error_count,
         warning_count |-> warning_count,
         results |-> rs]

\* deployment_readiness_agent.py 523-539: the report of the results
generate_report(rs) ==
    LET error_count == Count(rs, LAMBDA r : ~r.passed /\ r.severity = "ERROR")
        warning_count == Count(rs, LAMBDA r : ~r.passed /\ r.severity = "WARNING")
    IN  [deployment_ready |-> error_count = 0,
         passed_checks |-> Count(rs, LAMBDA r : r.passed),
         total_checks |-> Len(rs),
         error_count |-> error_count,
         warning_count |-> warning_count,
         results |-> rs]

\* deployment_readiness_agent.py 509-513: run_all_checks runs the next check and
\* logs its result
RunCheck(result) ==
    /\ stage = "checks"
    /\ Len(results) < Len(Checks)
    /\ result \in Outcomes(Checks[Len(results) + 1])
    /\ results' = Append(results, result)
    /\ UNCHANGED <<gateway, agent, report, stage, exit_code>>

\* deployment_readiness_agent.py 618: run_all_checks is over, main takes the report
Report ==
    /\ stage = "checks"
    /\ Len(results) = Len(Checks)
    /\ report' = generate_report(results)
    /\ stage' = "reported"
    /\ UNCHANGED <<gateway, agent, results, exit_code>>

\* deployment_readiness_agent.py 621: sys.exit(0 if report["deployment_ready"] else 1)
Exit ==
    /\ stage = "reported"
    /\ exit_code' = IF report.deployment_ready THEN 0 ELSE 1
    /\ stage' = "exited"
    /\ UNCHANGED <<gateway, agent, results, report>>

\* deployment_readiness_agent.py 623-626: the user interrupts the checks or the
\* printing of the summary
KeyboardInterrupt ==
    /\ stage = "checks"
    /\ exit_code' = 130
    /\ stage' = "exited"
    /\ UNCHANGED <<gateway, agent, results, report>>

\* deployment_readiness_agent.py 627-630: a check raises an exception it does not
\* catch itself (the directory walk of the policy check is outside its try)
UnexpectedError ==
    /\ stage = "checks"
    /\ Len(results) < Len(Checks)
    /\ Checks[Len(results) + 1] = "Localhost/Mock/Placeholder Policy"
    /\ exit_code' = 1
    /\ stage' = "exited"
    /\ UNCHANGED <<gateway, agent, results, report>>

---------------------------------------------------------------------------
(* Configurations, requests and upstream answers the model draws from *)

\* the longest message content an upstream answer carries
MaxContentLen == 45

Environ(p, c, b, a, k, t, m) ==
    [n \in {"UPSTREAM_PREDICT_URL", "UPSTREAM_CHAT_COMPLETIONS_URL",
            "UPSTREAM_API_BASE_URL", "UPSTREAM_AUTH", "UPSTREAM_API_KEY",
            "GOOGLE_ACCESS_TOKEN", "UPSTREAM_DEFAULT_MODEL", "GENAI_TOOLBOX_URL"} |->
        CASE n = "UPSTREAM_PREDICT_URL" -> p
          [] n = "UPSTREAM_CHAT_COMPLETIONS_URL" -> c
          [] n = "UPSTREAM_API_BASE_URL" -> b
          [] n = "UPSTREAM_AUTH" -> a
          [] n = "UPSTREAM_API_KEY" -> k
          [] n = "GOOGLE_ACCESS_TOKEN" -> t
          [] n = "UPSTREAM_DEFAULT_MODEL" -> m
          [] n = "GENAI_TOOLBOX_URL" -> Unset]

\* "https://v.ai/p/", "http://localhost/p", "http://LocalHost/p"
PredictGood == <<"h","t","t","p","s",":","/","/","v",".","a","i","/","p","/">>
PredictLocal == <<"h","t","t","p",":","/","/","l","o","c","a","l","h","o","s","t","/","p">>
PredictMixed == <<"h","t","t","p",":","/","/","L","o","c","a","l","H","o","s","t","/","p">>
\* "https://c.ai/cc", "http://LOCALHOST/cc"
CompletionsGood == <<"h","t","t","p","s",":","/","/","c",".","a","i","/","c","c">>
CompletionsUpper ==
    <<"h","t","t","p",":","/","/","L","O","C","A","L","H","O","S","T","/","c","c">>
\* "https://b.ai/", "http://127.0.0.1"
BaseGood == <<"h","t","t","p","s",":","/","/","b",".","a","i","/">>
BaseLoopback == <<"h","t","t","p",":","/","/","1","2","7",".","0",".","0",".","1">>
\* "Bearer", "GCloud", "oauth"
AuthBearer == <<"B","e","a","r","e","r">>
AuthGCloud == <<"G","C","l","o","u","d">>
AuthOther == <<"o","a","u","t","h">>
ApiKey == <<"s","k","1">>
AccessToken == <<"t","k","2">>
DemoModel == <<"demo-model">>

PredictUrls == {Unset, PredictGood, PredictLocal, PredictMixed}
CompletionsUrls == {Unset, CompletionsGood, CompletionsUpper}
BaseUrls == {Unset, BaseGood, BaseLoopback}
AuthModes == {Unset, AuthBearer, AuthGCloud, NoneMode, AuthOther}

\* every combination of the settings above
AllEnvirons ==
    {Environ(p, c, b, a, k, t, m) :
        p \in PredictUrls, c \in CompletionsUrls, b \in BaseUrls, a \in AuthModes,
        k \in {<<>>, ApiKey}, t \in {Unset, AccessToken}, m \in {Unset, DemoModel}}

\* one valid configuration per target style, with and without a default model
CoreEnvirons ==
    {Environ(PredictGood, Unset, Unset, Unset, ApiKey, Unset, m) : m \in {Unset, DemoModel}}
    \cup {Environ(Unset, CompletionsGood, Unset, NoneMode, Unset, Unset, m) :
            m \in {Unset, DemoModel}}
    \cup {Environ(Unset, Unset, BaseGood, AuthGCloud, Unset, AccessToken, m) :
            m \in {Unset, DemoModel}}

UserMessages ==
    JList(<<JObj([role |-> JStr(<<"user">>), content |-> JStr(<<"h","i">>)])>>)

Request(model, messages, max_tokens, temperature, stream) ==
    Dict([model |-> model, messages |-> messages, max_tokens |-> max_tokens,
          temperature |-> temperature, stream |-> stream])

\* every combination of absent, null and set fields
AllRequests ==
    {Request(mo, ms, mt, te, st) :
        mo \in {Absent, JNull, JStr(<<>>), JStr(<<"m1">>)},
        ms \in {Absent, UserMessages},
        mt \in {Absent, JNull, JNum(16)},
        te \in {Absent, JNull, JNum(1)},
        st \in {Absent, JNull, JBool(FALSE), JBool(TRUE)}}

\* the requests that differ in what the response translation reads
CoreRequests ==
    {Request(mo, UserMessages, Absent, Absent, st) :
        mo \in {Absent, JStr(<<"m1">>)}, st \in {Absent, JBool(FALSE), JBool(TRUE)}}

HelloWorld == JStr(<<"h","e","l","l","o"," ","w","o","r","l","d">>)
Letters(n) == JStr([k \in 1..n |-> LowerCase[((k - 1) % 26) + 1]])

Contents == {Absent, JNull, JStr(<<>>), HelloWorld, Letters(MaxContentLen)}

Messages == {Absent, JNull} \cup {Dict([role |-> JStr(<<"assistant">>), content |-> c]) :
                                    c \in Contents}

Choices ==
    {Dict([index |-> JNum(0), message |-> m, finish_reason |-> f]) :
        m \in Messages, f \in {Absent, JNull, JStr(<<"length">>)}}

SecondChoice ==
    Dict([index |-> JNum(1),
          message |-> Dict([role |-> JStr(<<"assistant">>), content |-> JStr(<<"x">>)]),
          finish_reason |-> JStr(<<"stop">>)])

ChoiceLists ==
    {Absent, JList(<<>>)} \cup {JList(<<c>>) : c \in Choices}
    \cup {JList(<<c, SecondChoice>>) : c \in {x \in Choices : ~HasKey(x, "finish_reason")}}

Usage == JObj([total_tokens |-> JNum(3)])

Predictions ==
    {Dict([id |-> id, model |-> mo, created |-> cr, usage |-> us, choices |-> ch]) :
        id \in {Absent, JStr(<<"id1">>)}, mo \in {Absent, JStr(<<"m2">>)},
        cr \in {Absent, JNum(17)}, us \in {Absent, Usage}, ch \in ChoiceLists}

\* `predictions` is absent, an object, a list of objects, or something else
PredictionFields ==
    {Absent, JList(<<>>), JStr(<<"o","o","p","s">>)} \cup Predictions
    \cup {JList(<<p>>) : p \in Predictions}
    \cup {JList(<<p, EmptyDict>>) : p \in {x \in Predictions : ~HasKey(x, "id")}}

VertexBodies == {Dict([predictions |-> p]) : p \in PredictionFields}

ErrorBody == JObj([error |-> JStr(<<"upstream says no">>)])
EventStream == <<"text/event-stream">>

\* every answer: success with each body, with a body that is not JSON or not an
\* object, and error statuses
AllAnswers ==
    {UpstreamAnswer(s, ApplicationJson, TRUE, v) : s \in {200, 201}, v \in VertexBodies}
    \cup {UpstreamAnswer(200, ApplicationJson, FALSE, JStr(<<"<html>">>)),
          UpstreamAnswer(200, ApplicationJson, TRUE, JList(<<>>))}
    \cup {UpstreamAnswer(200, ct, TRUE, JList(<<JStr(<<"c1">>), JStr(<<"c2">>)>>)) :
            ct \in {Unset, EventStream}}
    \cup {UpstreamAnswer(s, ApplicationJson, j, ErrorBody) : s \in {404, 500}, j \in BOOLEAN}

\* a prediction with one choice of the given content
SimplePrediction(c) ==
    Dict([id |-> JStr(<<"id1">>),
          choices |-> JList(<<Dict([index |-> JNum(0),
                                    message |-> Dict([content |-> c]),
                                    finish_reason |-> JStr(<<"stop">>)])>>)])

\* a few answers of each kind
CoreAnswers ==
    {UpstreamAnswer(200, ApplicationJson, TRUE, Dict([predictions |-> p])) :
        p \in {Absent, SimplePrediction(JNull), SimplePrediction(HelloWorld)}}
    \cup {UpstreamAnswer(200, EventStream, TRUE, JList(<<JStr(<<"c1">>)>>)),
          UpstreamAnswer(404, ApplicationJson, TRUE, ErrorBody)}

\* "https://github.com/test/repo", "git@host:a/b"
RepoTest == <<"https://github.com/test/repo">>
RepoOther == <<"git@host:a/b">>
RepoUrls == {RepoTest, RepoOther}

\* values of hash(): around zero, around the modulus and at the ends of the range
HashValues == {-2147483647, -20001, -10000, -9999, -1, 0, 1, 9999, 10000, 12345,
               2147483647}

NoHash == [u \in RepoUrls |-> 0]
Hashes == [RepoUrls -> HashValues]

\* "ws"
GivenId == <<"w", "s">>

---------------------------------------------------------------------------
(* Specifications *)

\* the gateway has no request
InitGateway(Environs) ==
    /\ env \in Environs
    /\ parked = NoRequest
    /\ route = "none"
    /\ client = "none"
    /\ pc = "idle"
    /\ inbound = JNull
    /\ body = JNull
    /\ sent = <<>>
    /\ resp = NoResp
    /\ response = NoResponse
    /\ emitted = <<>>
    /\ locals = NoLocals
    /\ i = 0
    /\ conn = "none"

\* the gateway next to an agent that has made no call
InitOver(Environs) == InitAgent({NoHash}) /\ InitValidator /\ InitGateway(Environs)

NextOver(Requests, PredictAnswers, ChatAnswers) ==
    \/ \E req \in Requests : chat_completions(req)
    \/ RequestError
    \/ \E r \in PredictAnswers : PredictReturns(r)
    \/ \E r \in ChatAnswers : ChatReturns(r)
    \/ \E r \in ChatAnswers : StreamOpens(r)
    \/ iter_bytes
    \/ SseRole
    \/ SseRaises
    \/ SsePiece
    \/ SseTerminal
    \/ SseDone
    \/ RequestEnds

\* every upstream answer, for the core configurations and requests
Init == InitOver(CoreEnvirons)
Next == NextOver(CoreRequests, AllAnswers, CoreAnswers)
Spec == Init /\ [][Next]_vars

\* every configuration
InitConfig == InitOver(AllEnvirons)
NextConfig == NextOver(CoreRequests, CoreAnswers, CoreAnswers)
SpecConfig == InitConfig /\ [][NextConfig]_vars

\* every request
InitRequest == InitOver(CoreEnvirons)
NextRequest == NextOver(AllRequests, CoreAnswers, CoreAnswers)
SpecRequest == InitRequest /\ [][NextRequest]_vars

\* the longest content of the slicing specification
MaxSliceLen == 445

\* every short length, and the lengths around 400 and 420 where len // 20 passes 20
SliceLengths == (0..MaxContentLen) \cup ((MaxSliceLen - 50)..MaxSliceLen)

SliceAnswers ==
    {UpstreamAnswer(200, ApplicationJson, TRUE,
                    Dict([predictions |-> SimplePrediction(Letters(n))])) :
        n \in SliceLengths}

\* every content length
InitSlices == InitOver(CoreEnvirons)
NextSlices == NextOver(CoreRequests, CoreAnswers \cup SliceAnswers, CoreAnswers)
SpecSlices == InitSlices /\ [][NextSlices]_vars

\* "https://t.ai/", "http://localhost:5000"
ToolboxGood == <<"h","t","t","p","s",":","/","/","t",".","a","i","/">>
ToolboxLocal ==
    <<"h","t","t","p",":","/","/","l","o","c","a","l","h","o","s","t",":","5","0","0","0">>
ToolboxUrls == {Unset, ToolboxGood, ToolboxLocal}

WithToolbox(e, u) == [e EXCEPT !["GENAI_TOOLBOX_URL"] = u]

\* configurations of the prediction passthrough: the prediction URL with each
\* auth mode, with and without the access token
VertexEnvirons ==
    {Environ(p, Unset, Unset, a, ApiKey, t, Unset) :
        p \in {PredictGood, PredictLocal}, a \in AuthModes,
        t \in {Unset, AccessToken}}

EndpointEnvirons ==
    {WithToolbox(e, u) : e \in CoreEnvirons \cup VertexEnvirons, u \in ToolboxUrls}

ToolRequests ==
    {ToolRequest(<<"t","1">>, c) : c \in {<<>>, <<"{\"q\": 1}">>}}

\* an answer without a body, and one whose body is not JSON
EmptyAnswer == UpstreamAnswer(200, ApplicationJson, FALSE, JStr(<<>>))
HtmlAnswer == UpstreamAnswer(200, ApplicationJson, FALSE, JStr(<<"<html>">>))

\* a request body that is not JSON
NotJsonRequest == Text(<<"{oops">>)

\* the three endpoints that call an upstream
InitEndpoints == InitOver(EndpointEnvirons)
NextEndpoints ==
    \/ NextOver(CoreRequests \cup {NotJsonRequest}, CoreAnswers \cup {HtmlAnswer},
                CoreAnswers \cup {HtmlAnswer})
    \/ \E req \in CoreRequests \cup {NotJsonRequest} : vertex_predict_passthrough(req)
    \/ \E r \in CoreAnswers \cup {HtmlAnswer} : VertexReturns(r)
    \/ VertexRequestError
    \/ \E req \in ToolRequests : toolbox_invoke(req)
    \/ \E r \in CoreAnswers \cup {EmptyAnswer, HtmlAnswer} : ToolReturns(r)
    \/ ToolRequestError
SpecEndpoints == InitEndpoints /\ [][NextEndpoints]_vars

\* a streaming request that names no model, and a plain one that names its model
ConcurrentRequests ==
    {Request(Absent, UserMessages, Absent, Absent, JBool(TRUE)),
     Request(JStr(<<"m1">>), UserMessages, Absent, Absent, Absent)}

\* two requests in flight, in every interleaving of their steps
InitConcurrent == InitOver(CoreEnvirons)
NextConcurrent ==
    \/ NextOver(ConcurrentRequests, CoreAnswers, CoreAnswers)
    \/ list_models
    \/ Switch
SpecConcurrent == InitConcurrent /\ [][NextConcurrent]_vars

\* streams the client may leave at any frame
InitCancel == InitOver(CoreEnvirons)
NextCancel ==
    \/ NextOver(CoreRequests, CoreAnswers, CoreAnswers)
    \/ ClientDisconnects
SpecCancel == InitCancel /\ [][NextCancel]_vars

\* a hash under which the two repositories collide, and one under which they differ
SomeHashes == {NoHash, [u \in RepoUrls |-> IF u = RepoTest THEN -20001 ELSE 12345]}

\* a gateway without configuration
NoEnviron == Environ(Unset, Unset, Unset, Unset, Unset, Unset, Unset)

\* the workspace ids of every hash function
InitIds == InitAgent(Hashes) /\ InitValidator /\ InitGateway({NoEnviron})
NextIds == \E u \in {None, <<>>} \cup RepoUrls : orchestrate(None, u)
SpecIds == InitIds /\ [][NextIds]_vars

\* the container agent: starts and stops in every order
InitAgentSpec == InitAgent(SomeHashes) /\ InitValidator /\ InitGateway({NoEnviron})
NextAgent ==
    \/ \E w \in {DefaultId, GivenId} \cup {_generate_workspace_id(hash, u) : u \in RepoUrls} :
          StartCall(w) \/ stop_container(w)
    \/ \E w \in {None, <<>>, GivenId}, u \in {None, <<>>} \cup RepoUrls : orchestrate(w, u)
SpecAgent == InitAgentSpec /\ [][NextAgent]_vars

\* one run of the validator, with every outcome of every check
InitReadiness == InitOver({NoEnviron})
NextReadiness ==
    \/ \E c \in DOMAIN Checks : \E result \in Outcomes(Checks[c]) : RunCheck(result)
    \/ Report
    \/ Exit
    \/ KeyboardInterrupt
    \/ UnexpectedError
SpecReadiness == InitReadiness /\ [][NextReadiness]_vars

---------------------------------------------------------------------------
(* Properties of the upstream resolver, checked under SpecConfig *)

\* a request has been received and the handler has acted on it
Handled == pc # "idle"

\* the handler answered an error without calling the upstream
FailedWith(status_code) ==
    /\ sent = <<>>
    /\ response.kind = "error"
    /\ response.status = status_code

Setting(n) == RStripSlash(getenv(env, n, <<>>))
IsSet(n) == Setting(n) # <<>>

\* the target the selection precedence names (trailing slashes dropped)
PrecedenceTarget ==
    IF IsSet("UPSTREAM_PREDICT_URL") THEN Setting("UPSTREAM_PREDICT_URL")
    ELSE IF IsSet("UPSTREAM_CHAT_COMPLETIONS_URL")
    THEN Setting("UPSTREAM_CHAT_COMPLETIONS_URL")
    ELSE Setting("UPSTREAM_API_BASE_URL") \o ChatCompletionsPath

AnyUrlSet ==
    \/ IsSet("UPSTREAM_PREDICT_URL")
    \/ IsSet("UPSTREAM_CHAT_COMPLETIONS_URL")
    \/ IsSet("UPSTREAM_API_BASE_URL")

\* C1: whatever combination of the three URLs is set, the resolver selects the
\* prediction URL if set, else the chat-completions URL if set, else the base URL
\* joined with /v1/chat/completions, and every upstream call goes to that target
C1_SelectionPrecedence ==
    /\ AnyUrlSet => SelectUpstream(env) = Return(PrecedenceTarget)
    /\ \A k \in DOMAIN sent : sent[k].url = PrecedenceTarget

\* a call went to the base URL joined with the path while only the base URL is set
C1_Witness ==
    /\ sent # <<>>
    /\ ~IsSet("UPSTREAM_PREDICT_URL") /\ ~IsSet("UPSTREAM_CHAT_COMPLETIONS_URL")
    /\ sent[1].url = RStripSlash(BaseGood) \o ChatCompletionsPath

\* the selected target names localhost or 127.0.0.1 in some letter case
TargetIsLocalAnyCase ==
    /\ AnyUrlSet
    /\ \/ Contains(Lower(PrecedenceTarget), Localhost)
       \/ Contains(PrecedenceTarget, Loopback)

\* C2: when the selected upstream URL contains localhost or 127.0.0.1 in any
\* letter case, the request is answered with a configuration error and the
\* upstream is not contacted
C2_LocalAnyCaseRejected ==
    (Handled /\ TargetIsLocalAnyCase) => FailedWith(503)

AuthName == getenv(env, "UPSTREAM_AUTH", Unset)
AuthNameIs(mode) == AuthName # Unset /\ Lower(AuthName) = mode
KeySetting == getenv(env, "UPSTREAM_API_KEY", <<>>)
TokenSetting == getenv(env, "GOOGLE_ACCESS_TOKEN", <<>>)

\* the resolver reaches the auth dispatch: a target is selected and passes the
\* local-address test
TargetAccepted == AnyUrlSet /\ ~IsForbiddenLocal(PrecedenceTarget)

\* C3: bearer fails on an empty API key and else sends Authorization: Bearer <key>;
\* gcloud fails on an empty access token and else sends that token; none sends no
\* Authorization header; any other mode name fails; every call carries
\* Content-Type: application/json
C3_AuthDispatch ==
    (Handled /\ TargetAccepted) =>
        /\ (AuthNameIs(BearerMode) /\ KeySetting = <<>>) => FailedWith(503)
        /\ (AuthNameIs(BearerMode) /\ KeySetting # <<>>) =>
              /\ sent # <<>>
              /\ sent[1].headers["Authorization"] = BearerPrefix \o KeySetting
        /\ (AuthNameIs(GCloudMode) /\ TokenSetting = <<>>) => FailedWith(503)
        /\ (AuthNameIs(GCloudMode) /\ TokenSetting # <<>>) =>
              /\ sent # <<>>
              /\ sent[1].headers["Authorization"] = BearerPrefix \o TokenSetting
        /\ AuthNameIs(NoneMode) =>
              /\ sent # <<>>
              /\ "Authorization" \notin DOMAIN sent[1].headers
        /\ (AuthName # Unset /\ Lower(AuthName) \notin {BearerMode, GCloudMode, NoneMode})
              => FailedWith(503)
        /\ \A k \in DOMAIN sent : sent[k].headers["Content-Type"] = ApplicationJson

\* a call carrying the access token under the mode name "GCloud"
C3_Witness ==
    /\ sent # <<>>
    /\ AuthName = AuthGCloud
    /\ KeySetting # <<>>
    /\ sent[1].headers["Authorization"] = BearerPrefix \o AccessToken

NoCredential ==
    \/ Lower(getenv(env, "UPSTREAM_AUTH", BearerMode)) = BearerMode /\ KeySetting = <<>>
    \/ Lower(getenv(env, "UPSTREAM_AUTH", BearerMode)) = GCloudMode /\ TokenSetting = <<>>

UnknownAuthMode ==
    Lower(getenv(env, "UPSTREAM_AUTH", BearerMode)) \notin {BearerMode, GCloudMode, NoneMode}

\* the four configuration errors the resolver raises
ConfigError ==
    \/ ~AnyUrlSet
    \/ AnyUrlSet /\ IsForbiddenLocal(PrecedenceTarget)
    \/ NoCredential
    \/ UnknownAuthMode

\* C4: every configuration error the resolver raises (no URL set, local address,
\* missing credential, unknown auth mode) is answered 503 without an upstream call
C4_ConfigError503 ==
    (Handled /\ ConfigError) => FailedWith(503)

\* a 503 for an unknown auth mode although a valid target is set
C4_Witness ==
    /\ Handled
    /\ TargetAccepted /\ UnknownAuthMode /\ ~NoCredential
    /\ FailedWith(503)

---------------------------------------------------------------------------
(* Properties of the request translation, checked under SpecRequest *)

DefaultModel == JStr(getenv(env, "UPSTREAM_DEFAULT_MODEL", BuiltinDefaultModel))

\* the target is chat-completions-style / prediction-style
ChatStyle == ~IsSet("UPSTREAM_PREDICT_URL")
PredictStyle == IsSet("UPSTREAM_PREDICT_URL")

\* the inbound request names no model: the field is absent, null or empty
NamesNoModel == ~HasKey(inbound, "model") \/ ~Truthy(inbound.v["model"])

\* C5 as stated: to a chat-completions-style target the outbound body is the
\* inbound body, with the default model set only when the inbound body has no
\* model field
C5_Original ==
    (ChatStyle /\ sent # <<>>) =>
        sent[1].json = IF ~HasKey(inbound, "model")
                       THEN SetKey(inbound, "model", DefaultModel)
                       ELSE inbound

\* C5 amended: to a chat-completions-style target the outbound body is the inbound
\* body, with the default model set when the inbound body has no model field or
\* an empty one (null, empty string); a request that names a model is forwarded
\* with that model unchanged
C5_DefaultModelInjected ==
    (ChatStyle /\ sent # <<>>) =>
        sent[1].json = IF NamesNoModel
                       THEN SetKey(inbound, "model", DefaultModel)
                       ELSE inbound

\* a null model was replaced by the configured default on the way out
C5_Witness ==
    /\ ChatStyle /\ sent # <<>>
    /\ HasKey(inbound, "model") /\ inbound.v["model"] = JNull
    /\ HasKey(inbound, "temperature")
    /\ sent[1].json.v["model"] = JStr(DemoModel)

\* the field has a value in the request: it is present and not null
HasValue(d, k) == HasKey(d, k) /\ d.v[k] # JNull

\* C6: to a prediction-style target the outbound body is {instances: [instance]},
\* the instance carrying the format marker, the message list, and max_tokens /
\* temperature exactly when the request has a value for them, never a null
C6_NoNullOptionals ==
    (PredictStyle /\ sent # <<>>) =>
        /\ DOMAIN sent[1].json.v = {"instances"}
        /\ LET instances == sent[1].json.v["instances"]
           IN  /\ instances.t = "list" /\ Len(instances.v) = 1
               /\ LET instance == instances.v[1]
                  IN  /\ instance.v["@requestFormat"] = JStr(<<"chatCompletions">>)
                      /\ instance.v["messages"] = GetOr(inbound, "messages", JList(<<>>))
                      /\ \A k \in {"max_tokens", "temperature"} :
                            /\ HasKey(instance, k) <=> HasValue(inbound, k)
                            /\ HasKey(instance, k) => instance.v[k] = inbound.v[k]

---------------------------------------------------------------------------
(* Properties of the response translation, checked under Spec *)

\* the prediction call was answered with a status below 400
PredictSucceeded ==
    /\ PredictStyle
    /\ sent # <<>>
    /\ resp.kind = "response"
    /\ resp.status_code < 400

\* the answer's body is a JSON object
BodyIsObject == resp.payload.json /\ resp.payload.value.t = "obj"

PredictionsField == Get(resp.payload.value, "predictions")

\* `predictions` is an object, or a non-empty sequence whose first element is one
WellFormedPredictions ==
    /\ BodyIsObject
    /\ HasKey(resp.payload.value, "predictions")
    /\ \/ PredictionsField.t = "obj"
       \/ /\ PredictionsField.t = "list"
          /\ PredictionsField.v # <<>>
          /\ PredictionsField.v[1].t = "obj"

\* the prediction the response is translated from
SourcePrediction ==
    IF PredictionsField.t = "list" THEN PredictionsField.v[1] ELSE PredictionsField

StreamRequested == HasKey(inbound, "stream") /\ inbound.v["stream"] = JBool(TRUE)

\* C7: with stream=false and a successful prediction call, the ChatCompletion's
\* choices are the choices of `predictions` when it is an object, and of its first
\* element when it is a non-empty sequence
C7_ChoicesRoundTrip ==
    (/\ PredictSucceeded
     /\ ~StreamRequested
     /\ WellFormedPredictions
     /\ HasKey(SourcePrediction, "choices")) =>
        /\ response.kind = "json"
        /\ response.body.v["choices"] = SourcePrediction.v["choices"]

\* the choices of the first of two predictions came back unchanged
C7_Witness ==
    /\ PredictSucceeded /\ ~StreamRequested /\ WellFormedPredictions
    /\ PredictionsField.t = "list" /\ Len(PredictionsField.v) = 2
    /\ HasKey(SourcePrediction, "choices")
    /\ Len(SourcePrediction.v["choices"].v) = 2
    /\ response.kind = "json"
    /\ response.body.v["choices"] = SourcePrediction.v["choices"]

\* the model of the request: the one it names, else the configured default
RequestModel == IF NamesNoModel THEN DefaultModel ELSE inbound.v["model"]

\* a ChatCompletion was translated from a well-formed prediction
Translated ==
    /\ PredictSucceeded
    /\ WellFormedPredictions
    /\ response.kind = "json"

\* C8 as stated: an absent model falls back to the request's model, and an absent
\* id, created or usage comes out empty or absent, never as an invented value
C8_Original ==
    Translated =>
        /\ ~HasKey(SourcePrediction, "model") => response.body.v["model"] = RequestModel
        /\ ~HasKey(SourcePrediction, "id") =>
              (HasKey(response.body, "id") => response.body.v["id"] \in {JNull, JStr(<<>>)})
        /\ ~HasKey(SourcePrediction, "created") => response.body.v["created"] = JNull
        /\ ~HasKey(SourcePrediction, "usage") =>
              response.body.v["usage"] \in {JNull, EmptyDict}

\* C8 amended: an absent model falls back to the request's model, an absent
\* created comes out null and an absent usage as the empty object, and an absent
\* id is replaced by the fixed placeholder "chatcmpl"
C8_Defaults ==
    Translated =>
        /\ ~HasKey(SourcePrediction, "model") => response.body.v["model"] = RequestModel
        /\ ~HasKey(SourcePrediction, "id") => response.body.v["id"] = JStr(<<"chatcmpl">>)
        /\ ~HasKey(SourcePrediction, "created") => response.body.v["created"] = JNull
        /\ ~HasKey(SourcePrediction, "usage") => response.body.v["usage"] = EmptyDict

\* a completion translated from a prediction that has choices and nothing else
C8_Witness ==
    /\ Translated
    /\ DOMAIN SourcePrediction.v = {"choices"}
    /\ ~HasKey(inbound, "model")
    /\ response.body.v["id"] = JStr(<<"chatcmpl">>)
    /\ response.body.v["model"] = JStr(DemoModel)

\* the success body has no usable `predictions`: missing, empty, or not an object
MalformedPredictions ==
    /\ BodyIsObject
    /\ \/ ~HasKey(resp.payload.value, "predictions")
       \/ PredictionsField = JList(<<>>)
       \/ PredictionsField.t \notin {"obj", "list"}

\* C9: a success status with a malformed body from a prediction-style upstream is
\* answered 502
C9_Malformed502 ==
    (PredictSucceeded /\ MalformedPredictions) => response.status = 502

---------------------------------------------------------------------------
(* Properties of the emulated stream, checked under Spec *)

\* the response is an emulated stream
Emulating == response.kind = "stream" /\ PredictStyle

IsChunk(f) == f.render # "literal"
ChoiceOf(f) == f.payload.v["choices"].v[1]
DeltaOf(f) == ChoiceOf(f).v["delta"]
FinishOf(f) == ChoiceOf(f).v["finish_reason"]

IsDone(f) == f = DoneFrame
IsRoleChunk(f) ==
    /\ IsChunk(f)
    /\ DeltaOf(f) = JObj([role |-> JStr(<<"assistant">>)])
    /\ FinishOf(f) = JNull
IsContentChunk(f) ==
    /\ IsChunk(f)
    /\ DOMAIN DeltaOf(f).v = {"content"}
    /\ FinishOf(f) = JNull
IsTerminalChunk(f) ==
    /\ IsChunk(f)
    /\ DeltaOf(f) = EmptyDict
    /\ FinishOf(f) # JNull

\* the content slices emitted so far, joined in emission order
RECURSIVE Joined(_)
Joined(frames) ==
    IF frames = <<>> THEN <<>>
    ELSE LET f == frames[Len(frames)]
             rest == Joined(SubSeq(frames, 1, Len(frames) - 1))
         IN  IF IsContentChunk(f) THEN rest \o DeltaOf(f).v["content"].v ELSE rest

---------------------------------------------------------------------------
(* Properties of the slicing, checked under SpecSlices *)

\* the content chunks among the frames
ContentChunks(frames) == {k \in DOMAIN frames : IsContentChunk(frames[k])}

\* the slice size for content of length n: max(20, floor(n / 20) or 1)
SliceSize(n) == IF n \div 20 > 20 THEN n \div 20 ELSE 20

\* ceil(n / d)
CeilDiv(n, d) == (n + d - 1) \div d

\* C11: for content of length L and slice size S = max(20, floor(L/20) or 1), no
\* content chunk carries an empty slice or one longer than S, and a finished
\* stream has ceil(L/S) content chunks whose payloads join to the content
C11_Slicing ==
    (Emulating /\ Sized(locals.content)) =>
        LET L == Len(locals.content.v)
            S == SliceSize(L)
        IN  /\ \A k \in ContentChunks(emitted) :
                  /\ Len(DeltaOf(emitted[k]).v["content"].v) >= 1
                  /\ Len(DeltaOf(emitted[k]).v["content"].v) <= S
            /\ pc = "done" =>
                  /\ Cardinality(ContentChunks(emitted)) = CeilDiv(L, S)
                  /\ Joined(emitted) = locals.content.v

\* a finished stream of 21 slices of 22 characters and one shorter slice
C11_Witness ==
    /\ Emulating /\ pc = "done"
    /\ Sized(locals.content)
    /\ Len(locals.content.v) = 445
    /\ Cardinality(ContentChunks(emitted)) = 21
    /\ Len(DeltaOf(emitted[2]).v["content"].v) = 22
    /\ Len(DeltaOf(emitted[22]).v["content"].v) = 5

---------------------------------------------------------------------------
(* Properties of the end of the emulated stream, checked under Spec *)

\* the stream is over: the generator returned or raised
StreamOver == pc \in {"done", "aborted"}

\* C12: an emulated stream always ends with the terminal chunk followed by
\* [DONE], whatever the content of the first choice's message
C12_StreamAlwaysCompletes ==
    (Emulating /\ StreamOver) =>
        /\ Len(emitted) >= 2
        /\ IsDone(emitted[Len(emitted)])
        /\ IsTerminalChunk(emitted[Len(emitted) - 1])

\* the first choice of the prediction the stream is made from
SourceChoice == SourcePrediction.v["choices"].v[1]

\* C13: the terminal chunk carries the finish_reason of the first choice of the
\* source response when it has one, and "stop" when it has none
C13_FinishReason ==
    Emulating =>
        \A k \in DOMAIN emitted :
            IsTerminalChunk(emitted[k]) =>
                FinishOf(emitted[k]) = IF HasValue(SourceChoice, "finish_reason")
                                       THEN SourceChoice.v["finish_reason"]
                                       ELSE JStr(<<"stop">>)

\* a terminal chunk repeating the source's "length"
C13_Witness ==
    /\ Emulating
    /\ Len(emitted) >= 2
    /\ IsTerminalChunk(emitted[Len(emitted)])
    /\ Get(SourceChoice, "finish_reason") = JStr(<<"length">>)
    /\ FinishOf(emitted[Len(emitted)]) = JStr(<<"length">>)

---------------------------------------------------------------------------
(* Properties of upstream errors, checked under Spec *)

\* the upstream answered the call with a status of 400 or more
UpstreamFailed == resp.kind = "response" /\ resp.status_code >= 400

\* C14: whenever the upstream answers with a status >= 400, to a prediction call,
\* a buffered chat-completions call or a streamed chat-completions call, the
\* status of the gateway's response is the upstream's status
C14_StatusMirrored ==
    UpstreamFailed =>
        /\ response.kind = "error"
        /\ response.status = resp.status_code

\* a 500 of a prediction-style upstream answered as a 500
C14_Witness ==
    /\ UpstreamFailed
    /\ sent # <<>>
    /\ PredictStyle
    /\ resp.status_code = 500
    /\ response.status = 500

\* C15: whenever the upstream answers with a status >= 400, the body of the
\* gateway's response is the upstream's body unmodified, with no wrapping,
\* re-encoding or translation
C15_BodyVerbatim ==
    UpstreamFailed => response.body = Text(resp.payload)

---------------------------------------------------------------------------
(* Properties of the passthrough relay, checked under Spec *)

\* the upstream call of the request was opened as a live stream
StreamedCall == sent # <<>> /\ sent[1].mode = "streamed"

\* the response relays the upstream's byte stream
Relaying == ChatStyle /\ StreamedCall /\ response.kind = "stream"

\* the byte chunks the upstream produces, in arrival order
UpstreamChunks == aiter_bytes(resp)

\* C17: with a chat-completions-style target, stream=true and an upstream status
\* below 400, the response carries the upstream's status and content-type, the
\* chunks relayed are the upstream's chunks in arrival order, unmodified, the
\* upstream connection is open whenever the relay reads from it, and a stream
\* that is over has relayed every chunk
C17_RelayComplete ==
    Relaying =>
        /\ response.status = resp.status_code
        /\ resp.content_type # Unset => response.media_type = resp.content_type
        /\ Len(emitted) <= Len(UpstreamChunks)
        /\ emitted = SubSeq(UpstreamChunks, 1, Len(emitted))
        /\ pc = "relay" => conn = "open"
        /\ StreamOver => emitted = UpstreamChunks

\* C18: in the streamed call mode, an upstream status >= 400 is surfaced as an
\* error response carrying the upstream's error body; no streaming response is
\* started and nothing is relayed as a stream chunk
C18_StreamedErrorSurfaced ==
    (StreamedCall /\ UpstreamFailed) =>
        /\ response.kind = "error"
        /\ response.body.v["detail"] = Text(resp.payload)
        /\ pc = "done"
        /\ emitted = <<>>

\* a streamed call answered 404, surfaced as a 404 error with nothing relayed
C18_Witness ==
    /\ StreamedCall
    /\ StreamRequested
    /\ UpstreamFailed /\ resp.status_code = 404
    /\ response = HTTPException(404, Text(resp.payload))
    /\ emitted = <<>>

---------------------------------------------------------------------------
(* Properties of the call mode, checked under SpecRequest *)

\* C19: a live streamed upstream call is opened only when the target is
\* chat-completions-style and the request has stream=true; a prediction-style
\* target is always called buffered, also when stream=true, and a
\* chat-completions-style target with stream false or absent is called buffered
C19_CallMode ==
    \A k \in DOMAIN sent :
        /\ sent[k].mode \in {"buffered", "streamed"}
        /\ sent[k].mode = "streamed" <=> (ChatStyle /\ StreamRequested)
        /\ PredictStyle => sent[k].mode = "buffered"

\* a buffered call to a prediction-style target for a request with stream=true
C19_Witness ==
    /\ sent # <<>>
    /\ PredictStyle
    /\ StreamRequested
    /\ sent[1].mode = "buffered"
    /\ sent[1].url = RStripSlash(PredictGood)

---------------------------------------------------------------------------
(* Properties of the three calling endpoints, checked under SpecEndpoints *)

\* the upstream call failed at the transport level
TransportFailed == resp = NetworkError

\* C16: on every endpoint that calls an upstream (chat completions,
\* /vertex/predict, /tools/{name}/invoke), a transport-level failure reaching the
\* upstream is answered with HTTP 502 carrying the cause message
C16_NetworkError502 ==
    TransportFailed =>
        /\ response.kind = "error"
        /\ response.status = 502
        /\ response.body.v["detail"].t = "str"

\* the handler is waiting for the upstream's answer
Awaiting == pc \in {"await_predict", "await_chat", "await_stream", "await_vertex",
                    "await_tool"}

\* C20: along the execution of one inbound request, on any endpoint, at most one
\* upstream call is issued whatever its outcome; after a failed call (upstream
\* error status or network failure) the failure is surfaced and no second call
\* follows
C20_NoRetries ==
    /\ Len(sent) <= 1
    /\ Awaiting => Len(sent) = 1 /\ resp = NoResp
    /\ (UpstreamFailed \/ TransportFailed) =>
          /\ Len(sent) = 1
          /\ ~Awaiting
          /\ response.status >= 400

\* a network failure on the prediction passthrough, surfaced after the one call
C20_Witness ==
    /\ route = "vertex"
    /\ Len(sent) = 1
    /\ pc = "done"
    /\ TransportFailed
    /\ response.status = 502

---------------------------------------------------------------------------
(* Properties of the success status, checked under Spec *)

\* the upstream answered with a status below 400 and the gateway answered a
\* ChatCompletion JSON object to a request that did not ask for a stream
SucceededBuffered ==
    /\ route = "chat"
    /\ resp.kind = "response"
    /\ resp.status_code < 400
    /\ ~StreamRequested
    /\ response.kind = "json"

\* C21: for a successful non-streaming chat-completions request the status of the
\* gateway's response is the upstream's status, for prediction-style and
\* chat-completions-style targets and for every upstream success status
C21_SuccessStatusMirrored ==
    SucceededBuffered => response.status = resp.status_code

---------------------------------------------------------------------------
(* Properties of the prediction passthrough, checked under SpecEndpoints *)

\* C22: for every configuration with a prediction URL, /vertex/predict accepts or
\* rejects as the chat-completions resolver does, with the same status, and sends
\* the resolver's headers; on acceptance it forwards the request body unmodified
\* to the prediction URL and returns the upstream JSON as it came
C22_VertexAsResolver ==
    (route = "vertex" /\ Handled /\ PredictStyle) =>
        LET cfg == _get_upstream_config(env)
        IN  IF ~cfg.ok
            THEN FailedWith(ConfigErrorResponse(cfg.error).status)
            ELSE /\ sent # <<>>
                 /\ sent[1].url = cfg.value.url
                 /\ sent[1].headers = cfg.value.headers
                 /\ sent[1].json = inbound
                 /\ (resp.kind = "response" /\ resp.status_code < 400 /\ resp.payload.json)
                       => response = JSONResponse(resp.status_code, resp.payload.value)

---------------------------------------------------------------------------
(* Properties of concurrent requests, checked under SpecConcurrent *)

\* the response the handler gives to upstream answer r for outbound body b, as a
\* function of the configuration, the request and that answer
ResponseTo(b, r) ==
    IF r = NoResp THEN NoResponse
    ELSE IF r = NetworkError
    THEN HTTPException(502, JStr(<<"Erro ao conectar ao upstream">>))
    ELSE IF predict_url(env) # <<>> THEN PredictOutcome(r, b).response
    ELSE IF ~Truthy(Get(b, "stream")) THEN ChatOutcome(r)
    ELSE IF r.status_code >= 400 THEN UpstreamError(r)
    ELSE StreamingResponse(r.status_code,
                           IF r.content_type = Unset THEN ApplicationJson
                           ELSE r.content_type)

\* everything request q holds is determined by its own body, the configuration
\* and its own upstream answer
Isolated(q) ==
    q.route = "chat" =>
        LET cfg == _get_upstream_config(env)
            b == InjectDefaultModel(q.inbound, env)
        IN  IF ~cfg.ok
            THEN q.sent = <<>> /\ q.response = ConfigErrorResponse(cfg.error)
            ELSE /\ q.body = b
                 /\ q.sent = <<UpstreamCall(env, cfg.value, b)>>
                 /\ q.response = ResponseTo(b, q.resp)
                 /\ (q.resp.kind = "response" /\ predict_url(env) # <<>>)
                       => q.locals = PredictOutcome(q.resp, b).locals

\* C23: in every interleaving of two requests, the response to each is a function
\* of that request, the configuration and its own upstream answer; a failed
\* request changes nothing the other observes, and the default model injected
\* into one request does not show in the other's outbound body
C23_Isolation ==
    /\ Isolated(Running)
    /\ Isolated(parked)
    /\ parked.route = "none" => parked = NoRequest

\* a request that failed on the network next to one that succeeded, the first
\* sent with the injected default model and the second with its own
C23_Witness ==
    /\ ChatStyle
    /\ route = "chat" /\ parked.route = "chat"
    /\ parked.pc = "done" /\ parked.resp = NetworkError
    /\ ~HasKey(parked.inbound, "model")
    /\ parked.sent[1].json.v["model"] = DefaultModel
    /\ pc = "done" /\ response.kind = "json"
    /\ sent[1].json.v["model"] = JStr(<<"m1">>)

---------------------------------------------------------------------------
(* Properties of cancellation, checked under SpecCancel *)

---------------------------------------------------------------------------
(* Properties of unhandled exceptions, checked under SpecEndpoints *)

\* an exception left the handler or its response generator uncaught
ExceptionEscaped == response.kind = "unhandled" \/ pc = "aborted"

\* C25: an exception the handler does not handle itself is answered with a
\* 500-class response for that request, and the server goes on to the next request
C25_Unhandled500 ==
    ExceptionEscaped =>
        /\ response.status >= 500
        /\ response.status < 600
        /\ ENABLED RequestEnds

---------------------------------------------------------------------------
(* Properties of the frame text, checked under Spec *)

\* 'data: ' followed by the JSON serialisation of the chunk and a blank line
JsonFrame(chunk) == <<"data: ">> \o Render(chunk, JsonText) \o <<"\n\n">>

\* C26: each frame of an emulated stream is 'data: ' followed by the JSON
\* serialisation of the chunk object and a blank line, a null finish_reason
\* rendered as null and strings double-quoted, and the last frame is the literal
\* 'data: [DONE]' followed by a blank line
C26_FramesAreJson ==
    Emulating =>
        /\ \A k \in DOMAIN emitted :
              IsChunk(emitted[k]) => Wire(emitted[k]) = JsonFrame(emitted[k].payload)
        /\ pc = "done" =>
              Wire(emitted[Len(emitted)]) = <<"data: ", "[DONE]", "\n\n">>

---------------------------------------------------------------------------
(* Properties of the model listing, checked under SpecConcurrent *)

\* request q is an answered call of the model listing
Listed(q) == q.route = "models" /\ q.pc = "done"

\* C27: every call of the model listing, interleaved with any other requests,
\* returns the same response: status 200 and a list of exactly one model, whose
\* id is the configured default model
C27_ListingIdempotent ==
    /\ \A q \in {Running, parked} :
          Listed(q) =>
              /\ q.response.status = 200
              /\ q.response.body.v["object"] = JStr(<<"list">>)
              /\ q.response.body.v["data"] =
                    JList(<<JObj([id |-> DefaultModel, object |-> JStr(<<"model">>)])>>)
    /\ (Listed(Running) /\ Listed(parked)) => response = parked.response

\* a call that lists the configured model, answered next to a failed chat request
C27_Witness ==
    /\ Listed(Running)
    /\ parked.route = "chat" /\ parked.pc = "done" /\ parked.response.status >= 400
    /\ response.body.v["data"].v[1].v["id"] = JStr(DemoModel)

---------------------------------------------------------------------------
(* Properties of the container agent, checked under SpecAgent *)

\* the step is a call that starts the container of workspace id w
Starts(w) ==
    /\ op'.call \in {"start_container", "orchestrate"}
    /\ op'.workspace_id = w
    /\ <<containers, handle, op>> # <<containers', handle', op'>>

\* C28: there is at most one container per workspace id; a start on an id that
\* has a container creates none, starts that container if it is not running and
\* leaves it as it is if it is running, and a start on an id without a container
\* creates one; the containers of the other ids are not touched
C28_StartIdempotent ==
    [][/\ \A c, d \in containers' : c.name = d.name => c = d
       /\ \A w \in {c.name : c \in containers'} :
             Starts(w) =>
                 /\ {c \in containers' : c.name # w} = {c \in containers : c.name # w}
                 /\ handle'.name = w
                 /\ \E c \in containers' :
                       c.id = handle'.id /\ c.name = w /\ c.status = "running"
                 /\ IF Named(containers, w) = {}
                    THEN Cardinality(containers') = Cardinality(containers) + 1
                    ELSE /\ Cardinality(containers') = Cardinality(containers)
                         /\ {c.id : c \in containers'} = {c.id : c \in containers}
                         /\ \A c \in Named(containers, w) :
                               IF c.status = "running" THEN c \in containers'
                               ELSE [c EXCEPT !.status = "running"] \in containers']_vars

\* a stopped container started again by a second start on its workspace id
C28_Witness ==
    /\ op.call = "start_container"
    /\ Cardinality(containers) = 2
    /\ handle.id = 1
    /\ handle.status = "exited"
    /\ \A c \in containers : c.status = "running"

---------------------------------------------------------------------------
(* Properties of the workspace ids, checked under SpecIds *)

\* s is the decimal numeral of a natural number, without sign or leading zero
IsNumeral(s) ==
    /\ s # <<>>
    /\ \A k \in DOMAIN s : \E d \in DOMAIN DigitChars : s[k] = DigitChars[d]
    /\ Len(s) > 1 => s[1] # "0"

\* the number a numeral denotes
RECURSIVE Value(_)
Value(s) ==
    IF s = <<>> THEN 0
    ELSE 10 * Value(SubSeq(s, 1, Len(s) - 1))
         + ((CHOOSE d \in DOMAIN DigitChars : s[Len(s)] = DigitChars[d]) - 1)

\* the id is 'repo-' followed by an integer in 0..9999
IsRepoId(id) ==
    /\ StartsWith(id, RepoPrefix)
    /\ LET n == SubSeq(id, Len(RepoPrefix) + 1, Len(id))
       IN  IsNumeral(n) /\ Value(n) >= 0 /\ Value(n) < 10000

\* list_containers reports a container of that name
Managed(id) == list_containers({Container(1, id, "running")}) # {}

\* C29: for every non-empty repository URL the generated id is 'repo-' followed by
\* an integer n with 0 <= n < 10000, for an absent or empty URL it is 'default',
\* and every generated id is one list_containers recognises as managed
C29_WorkspaceIds ==
    /\ \A u \in RepoUrls : IsRepoId(_generate_workspace_id(hash, u))
    /\ \A u \in {None, <<>>} : _generate_workspace_id(hash, u) = DefaultId
    /\ \A u \in {None, <<>>} \cup RepoUrls : Managed(_generate_workspace_id(hash, u))
    /\ (op.call = "orchestrate" /\ op.given = None) =>
          /\ IF op.repo_url \in RepoUrls THEN IsRepoId(op.workspace_id)
             ELSE op.workspace_id = DefaultId
          /\ \E c \in list_containers(containers) : c.name = op.workspace_id

\* the id repo-1 generated under a negative hash, and its container listed
C29_Witness ==
    /\ op.call = "orchestrate"
    /\ op.repo_url = RepoTest
    /\ hash[RepoTest] = -20001
    /\ op.workspace_id = RepoPrefix \o <<"1">>
    /\ \E c \in list_containers(containers) : c.name = RepoPrefix \o <<"1">>

---------------------------------------------------------------------------
(* Properties of the readiness report, checked under SpecReadiness *)

\* run_all_checks has finished and the report has been generated
Reported == stage = "reported" \/ (stage = "exited" /\ report # NoReport)

\* C30: after run_all_checks there is exactly one result per check, in the check
\* order; every failed result has severity ERROR or WARNING; passed_checks +
\* error_count + warning_count = total_checks; deployment_ready holds iff
\* error_count = 0, whatever the warnings; and the exit code is 0 iff
\* deployment_ready
C30_ReadinessReport ==
    Reported =>
        /\ Len(results) = Len(Checks)
        /\ \A k \in DOMAIN results : results[k].message = Checks[k]
        /\ \A k \in DOMAIN results :
              ~results[k].passed => results[k].severity \in {"ERROR", "WARNING"}
        /\ report.results = results
        /\ report.total_checks = Len(Checks)
        /\ report.passed_checks + report.error_count + report.warning_count
              = report.total_checks
        /\ report.error_count =
              Cardinality({k \in DOMAIN results :
                              ~results[k].passed /\ results[k].severity = "ERROR"})
        /\ report.deployment_ready <=> report.error_count = 0
        /\ stage = "exited" => (exit_code = 0 <=> report.deployment_ready)

\* a run with two warnings and no error, ready and exited with 0
C30_Witness ==
    /\ stage = "exited"
    /\ report # NoReport
    /\ report.warning_count = 2
    /\ report.error_count = 0
    /\ report.deployment_ready
    /\ exit_code = 0

====
